---- MODULE Spec2Model ----
(***************************************************************************)
(* The portfolio slider of PortfolioApp (main.js): the slide index, the    *)
(* transition lock with its release timers, and the touch, mouse and       *)
(* keyboard handlers installed by setupPortfolioSlider and                 *)
(* setupTouchNavigation.                                                   *)
(*                                                                         *)
(* Units.  Times are milliseconds.  Pointer coordinates are CSS pixels.    *)
(* A track offset (the x of translateX(x%)) is kept in tenths of a         *)
(* percent, rounded down; the pointer positions of Next are multiples of   *)
(* 3 px on a 300 px container, for which every offset is exact.            *)
(***************************************************************************)
EXTENDS Integers, FiniteSets, Sequences, TLC

(***************************************************************************)
(* Bounds of the model.                                                    *)
(***************************************************************************)
MaxSlides == 2
MaxContacts == 2
EvalSlides == 3
MaxElapsed == 200
MaxAnimations == 1
MaxEntries == 1
EvalMaxDx == 90
EvalMaxDt == 180
WrapMaxSlides == 6
AxisMaxDelta == 18
DragMaxPercent == 40

(***************************************************************************)
(* Constants of the program.                                               *)
(***************************************************************************)
TransitionMs == 500
TouchThreshold == 50
TouchMinDistance == 20
MouseThreshold == 80
MouseMinDistance == 30
AxisMinMovement == 10
AxisMinHorizontal == 15
MouseFeedbackMin == 5

\* minVelocity 0.3 (touch) and 0.5 (mouse) px/ms, as fractions num/den
TouchMinVelocity == <<3, 10>>
MouseMinVelocity == <<5, 10>>
\* boundary resistance 0.3 (touch) and 0.2 (mouse), as fractions num/den
TouchResistance == <<3, 10>>
MouseResistance == <<2, 10>>

(***************************************************************************)
(* Granularity of time and the inputs the environment draws from.          *)
(***************************************************************************)
TickStep == TransitionMs \div 2

StartXs == {300}
StartYs == {0}
TouchDXs == {-90, 3, 30}
TouchDYs == {0, 25}
MouseDXs == {-90, 3, 30}
ContainerWidths == {300}
Keys == {"ArrowLeft", "ArrowRight", "Home", "End", "Tab"}

TouchXs == {s + d : s \in StartXs, d \in TouchDXs}
TouchYs == {s + d : s \in StartYs, d \in TouchDYs}
MouseXs == {s + d : s \in StartXs, d \in MouseDXs}
GoToInputs == (0 - 1) .. MaxSlides

\* smooth scrolling: the extra padding under the navbar and the duration of
\* the fallback animation, whose frames come every FrameStep ms
ExtraPadding == 20
ScrollDuration == 800
FrameStep == ScrollDuration \div 2
OffsetTops == {400, 1200}
NavbarHeights == {60, 70}

\* the animated elements of the document, one for each branch of the
\* observer callback
Elements == {"section", "tool-card", "services-li", "results-statement",
             "portfolio-slider", "contact-item"}

VARIABLES
  phase,              \* "loading" until DOMContentLoaded has run init's body
  currentSlide,       \* this.currentSlide
  totalSlides,        \* this.totalSlides
  isAnimating,        \* this.isAnimating, the transition lock
  timers,             \* pending setTimeout callbacks: ms left until each is due
  startX, startY,     \* closure variables of setupTouchNavigation
  currentX,
  isDragging,
  sinceStartTime,     \* Date.now() - startTime, saturated at MaxElapsed
  isMobile,
  initialTransform,   \* in percent
  isHorizontalSwipe,
  trackTransform,     \* sliderTrack.style.transform, tenths of a percent
  indicatorIndex,     \* the index the indicator loop last marked active
  transitionEnabled,  \* sliderTrack.style.transition is not 'none'
  touches,            \* number of contacts on the screen (e.touches.length)
  defaultPrevented,   \* the latest touch event handled had preventDefault called
  primaryDown,        \* history: the contact that began the gesture is down
  gestureCommitted,   \* history: a touchend of this gesture changed currentSlide
  calls,              \* history: number of direct calls of nextSlide
  lastCall,           \* history: the latest direct call of nextSlide or
                      \* previousSlide, the index before it, the lock then
  initLock,           \* history: initPortfolioSlider has engaged the lock and
                      \* no timer callback has run since
  mouseStill,         \* history: no mouse move since the latest mousedown
  axis,               \* history: first classification of the touch session
  sinceChange,        \* history: ms since currentSlide last changed, saturated
  smoothSupported,    \* 'scrollBehavior' in document.documentElement.style
  pageYOffset,        \* window.pageYOffset
  scrollAnimations,   \* fallback scroll animations with a frame requested
  prevented,          \* the latest link click had preventDefault called
  scrollCalls,        \* history: window.scrollTo calls since the latest click
  observed,           \* elements the scroll observer observes
  classList,          \* animation classes of each animated element
  repeated,           \* history: elements reported intersecting when animated
  reported,           \* history: elements the step just taken reported intersecting
  navActive,          \* of navToggle, navMenu, body: those carrying the
                      \* class 'active' ('nav-open' for body)
  menuHandlers,       \* initialization paths whose toggle handlers are bound
  fallbackPending,    \* the fallback's 2000 ms timer is scheduled
  tapDown,            \* history: a tap's pointerdown is delivered, not its click
  tapChanges          \* history: open/closed changes the current tap has made

vars == <<phase, currentSlide, totalSlides, isAnimating, timers, startX, startY,
          currentX, isDragging, sinceStartTime, isMobile,
          initialTransform, isHorizontalSwipe, trackTransform, indicatorIndex,
          transitionEnabled, touches, defaultPrevented, primaryDown,
          gestureCommitted, calls, lastCall, initLock, mouseStill, axis,
          sinceChange, smoothSupported, pageYOffset, scrollAnimations, prevented,
          scrollCalls, observed, classList, repeated, reported,
          navActive, menuHandlers, fallbackPending, tapDown, tapChanges>>

portfolio == <<phase, currentSlide, totalSlides, isAnimating, timers, startX,
               startY, currentX, isDragging, sinceStartTime, isMobile,
               initialTransform, isHorizontalSwipe, trackTransform,
               indicatorIndex, transitionEnabled, touches, defaultPrevented,
               primaryDown, gestureCommitted, calls, lastCall, initLock,
               mouseStill, axis, sinceChange>>
scroll == <<smoothSupported, pageYOffset, scrollAnimations, prevented,
            scrollCalls>>
animation == <<observed, classList, repeated, reported>>
menu == <<navActive, menuHandlers, fallbackPending, tapDown, tapChanges>>
page == <<scroll, animation, menu>>

slider == <<currentSlide, isAnimating, timers, trackTransform, indicatorIndex>>
session == <<startX, startY, currentX, isDragging, sinceStartTime,
             initialTransform, isHorizontalSwipe>>
contacts == <<touches, defaultPrevented, primaryDown, gestureCommitted>>

\* no direct call of nextSlide or previousSlide has been made
NoCall == [name |-> "none", from |-> 0, clear |-> FALSE]

(***************************************************************************)
(* Arithmetic helpers.                                                     *)
(***************************************************************************)
Abs(x) == IF x < 0 THEN 0 - x ELSE x
Min(a, b) == IF a < b THEN a ELSE b

\* JavaScript's %: the sign of the result is the sign of the dividend
JsRem(a, b) == IF a >= 0 THEN a % b ELSE 0 - ((0 - a) % b)

\* a percentage as a track offset (tenths of a percent)
Pct(p) == 10 * p

\* |diffX| / diffTime > num/den; x/0 is Infinity for x > 0 and 0/0 is NaN
VelocityAbove(diffX, diffTime, v) == Abs(diffX) * v[2] > v[1] * diffTime

(***************************************************************************)
(* The slide index and the lock.                                           *)
(***************************************************************************)
\* variant: the lock is engaged but no release timer is started
UpdateSliderPositionNoTimer(slide) ==
  /\ isAnimating' = TRUE
  /\ trackTransform' = Pct((0 - slide) * 100)
  /\ indicatorIndex' = slide
  /\ timers' = timers

\* variant: the position is updated but the lock is not engaged
UpdateSliderPositionNoLock(slide) ==
  /\ isAnimating' = isAnimating
  /\ trackTransform' = Pct((0 - slide) * 100)
  /\ indicatorIndex' = slide
  /\ timers' = timers \cup {TransitionMs}

UpdateSliderPosition(slide) ==
  /\ isAnimating' = TRUE
  /\ trackTransform' = Pct((0 - slide) * 100)
  /\ indicatorIndex' = slide
  /\ timers' = timers \cup {TransitionMs}

\* variant: nextSlide without the modulo
NextSlideNoWrap ==
  IF isAnimating \/ totalSlides = 0
  THEN UNCHANGED slider
  ELSE /\ currentSlide' = currentSlide + 1
       /\ UpdateSliderPosition(currentSlide')

\* variant: nextSlide without the isAnimating guard
NextSlideUnguarded ==
  IF totalSlides = 0
  THEN UNCHANGED slider
  ELSE /\ currentSlide' = JsRem(currentSlide + 1, totalSlides)
       /\ isAnimating' = TRUE
       /\ trackTransform' = Pct((0 - currentSlide') * 100)
       /\ indicatorIndex' = currentSlide'
       /\ timers' = timers \cup {TransitionMs}

NextSlide ==
  IF isAnimating \/ totalSlides = 0
  THEN UNCHANGED slider
  ELSE /\ currentSlide' = JsRem(currentSlide + 1, totalSlides)
       /\ UpdateSliderPosition(currentSlide')

\* variant: previousSlide without the wrap to the last slide
PreviousSlideNoWrap ==
  IF isAnimating \/ totalSlides = 0
  THEN UNCHANGED slider
  ELSE /\ currentSlide' = currentSlide - 1
       /\ isAnimating' = TRUE
       /\ trackTransform' = Pct((0 - currentSlide') * 100)
       /\ indicatorIndex' = currentSlide'
       /\ timers' = timers \cup {TransitionMs}

\* variant: previousSlide stops at the first slide
PreviousSlideClamped ==
  IF isAnimating \/ totalSlides = 0
  THEN UNCHANGED slider
  ELSE /\ currentSlide' = IF currentSlide = 0 THEN 0 ELSE currentSlide - 1
       /\ UpdateSliderPosition(currentSlide')

PreviousSlide ==
  IF isAnimating \/ totalSlides = 0
  THEN UNCHANGED slider
  ELSE /\ currentSlide' = IF currentSlide = 0 THEN totalSlides - 1
                          ELSE currentSlide - 1
       /\ UpdateSliderPosition(currentSlide')

\* variant: goToSlide without the totalSlides === 0 guard
GoToSlideNoZeroGuard(slideIndex) ==
  IF isAnimating \/ slideIndex = currentSlide
  THEN UNCHANGED slider
  ELSE /\ currentSlide' = slideIndex
       /\ UpdateSliderPosition(currentSlide')

GoToSlide(slideIndex) ==
  IF isAnimating \/ totalSlides = 0 \/ slideIndex = currentSlide
  THEN UNCHANGED slider
  ELSE /\ currentSlide' = slideIndex
       /\ UpdateSliderPosition(currentSlide')

\* the indicators marked active (class 'active', aria-current 'true'): the
\* document holds one indicator per slide, and the loop of
\* updateSliderPosition marks the one whose position equals the index
ActiveIndicators == {i \in 0 .. (totalSlides - 1) : i = indicatorIndex}

\* the snap back of a cancelled gesture: updateSliderPosition alone
SnapBack ==
  /\ currentSlide' = currentSlide
  /\ UpdateSliderPosition(currentSlide)

\* history of the index: restarted by every step that changes currentSlide
Changed ==
  sinceChange' = IF currentSlide' # currentSlide THEN 0 ELSE sinceChange

(***************************************************************************)
(* The release decision and the boundary resistance of the drag handlers.  *)
(***************************************************************************)
\* variant: the distance test admits a displacement equal to the threshold
ShouldChangeSlideInclusive(diffX, diffTime, threshold, minVelocity, minDistance) ==
  IF Abs(diffX) >= threshold
  THEN TRUE
  ELSE VelocityAbove(diffX, diffTime, minVelocity) /\ Abs(diffX) > minDistance

\* shouldChangeSlide of the touchend and mouseup handlers
ShouldChangeSlide(diffX, diffTime, threshold, minVelocity, minDistance) ==
  IF Abs(diffX) > threshold
  THEN TRUE
  ELSE VelocityAbove(diffX, diffTime, minVelocity) /\ Abs(diffX) > minDistance

\* direction: swipe right = previous (-1), swipe left = next (1)
\* variant: a drag to the left goes back and a drag to the right advances
DirectionInverted(diffX) == IF diffX > 0 THEN 1 ELSE 0 - 1

Direction(diffX) == IF diffX > 0 THEN 0 - 1 ELSE 1

Release(diffX, diffTime, threshold, minVelocity, minDistance) ==
  IF ShouldChangeSlide(diffX, diffTime, threshold, minVelocity, minDistance)
  THEN IF Direction(diffX) > 0 THEN NextSlide ELSE PreviousSlide
  ELSE SnapBack

\* (diffX / offsetWidth) * 100, as a track offset
DragOffset(diffX, offsetWidth) == (diffX * 1000) \div offsetWidth

\* variant: the track follows the pointer past the two ends
ResistanceTransformFree(diffX, offsetWidth, factor) ==
  Pct(initialTransform) + DragOffset(diffX, offsetWidth)

\* resistanceTransform of the touchmove and mousemove handlers
ResistanceTransform(diffX, offsetWidth, factor) ==
  LET newTransform == Pct(initialTransform) + DragOffset(diffX, offsetWidth)
      maxTransform == 0
      minTransform == Pct((0 - (totalSlides - 1)) * 100)
  IN  IF newTransform > maxTransform
      THEN maxTransform + ((newTransform - maxTransform) * factor[1]) \div factor[2]
      ELSE IF newTransform < minTransform
           THEN minTransform + ((newTransform - minTransform) * factor[1]) \div factor[2]
           ELSE newTransform

(***************************************************************************)
(* The page around the slider before and after start-up: nothing scrolled, *)
(* no element animated; setupScrollAnimations observes every element.      *)
(* The menu is closed; once the page has settled the main set-up's         *)
(* pointerdown listener and the emergency onclick are bound and the        *)
(* fallback's timer has run.                                               *)
(***************************************************************************)
PageLoading ==
  /\ pageYOffset = 0
  /\ scrollAnimations = {}
  /\ prevented = FALSE
  /\ scrollCalls = <<>>
  /\ observed = {}
  /\ classList = [e \in Elements |-> {}]
  /\ repeated = {}
  /\ reported = {}
  /\ navActive = {}
  /\ menuHandlers = {}
  /\ fallbackPending = FALSE
  /\ tapDown = FALSE
  /\ tapChanges = 0

PageReady ==
  /\ pageYOffset = 0
  /\ scrollAnimations = {}
  /\ prevented = FALSE
  /\ scrollCalls = <<>>
  /\ observed = Elements
  /\ classList = [e \in Elements |-> {}]
  /\ repeated = {}
  /\ reported = {}
  /\ navActive = {}
  /\ menuHandlers = {"main", "emergency"}
  /\ fallbackPending = FALSE
  /\ tapDown = FALSE
  /\ tapChanges = 0

(***************************************************************************)
(* Start-up: init's body runs setupEventListeners, then initPortfolioSlider *)
(* with the n slides of the document.  setupMobileMenu binds the toggle's  *)
(* pointerdown listener; the two other DOMContentLoaded listeners run      *)
(* initEmergencyMenu and schedule the fallback.                                      *)
(***************************************************************************)
Init ==
  /\ phase = "loading"
  /\ currentSlide = 0
  /\ totalSlides = 0
  /\ isAnimating = FALSE
  /\ timers = {}
  /\ startX = 0 /\ startY = 0 /\ currentX = 0
  /\ isDragging = FALSE
  /\ sinceStartTime = MaxElapsed
  /\ isMobile = FALSE
  /\ initialTransform = 0
  /\ isHorizontalSwipe = FALSE
  /\ trackTransform = 0
  /\ indicatorIndex = 0 - 1
  /\ transitionEnabled = TRUE
  /\ touches = 0
  /\ defaultPrevented = FALSE
  /\ primaryDown = FALSE
  /\ gestureCommitted = FALSE
  /\ calls = 0
  /\ lastCall = NoCall
  /\ initLock = FALSE
  /\ mouseStill = FALSE
  /\ axis = "NoSession"
  /\ sinceChange = TransitionMs
  /\ smoothSupported = TRUE
  /\ PageLoading

\* variant: initPortfolioSlider does not call updateSliderPosition
DOMContentLoadedNoUpdate(n, mobile) ==
  /\ phase = "loading"
  /\ phase' = "ready"
  /\ isMobile' = mobile
  /\ transitionEnabled' = TRUE
  /\ totalSlides' = n
  /\ UNCHANGED slider
  /\ initLock' = (n > 0)
  /\ Changed
  /\ observed' = Elements
  /\ menuHandlers' = menuHandlers \cup {"main", "emergency"}
  /\ fallbackPending' = TRUE
  /\ UNCHANGED <<session, contacts, calls, lastCall, mouseStill, axis, scroll,
                 classList, repeated, reported, navActive, tapDown,
                 tapChanges>>

DOMContentLoaded(n, mobile) ==
  /\ phase = "loading"
  /\ phase' = "ready"
  /\ isMobile' = mobile
  /\ transitionEnabled' = TRUE
  /\ totalSlides' = n
  /\ IF n > 0 THEN SnapBack ELSE UNCHANGED slider
  /\ initLock' = (n > 0)
  /\ Changed
  /\ observed' = Elements
  /\ menuHandlers' = menuHandlers \cup {"main", "emergency"}
  /\ fallbackPending' = TRUE
  /\ UNCHANGED <<session, contacts, calls, lastCall, mouseStill, axis, scroll,
                 classList, repeated, reported, navActive, tapDown,
                 tapChanges>>

(***************************************************************************)
(* Touch handlers on the slider container.  touches is the length of       *)
(* e.touches after the event; x, y are the coordinates of e.touches[0].    *)
(* currentY is assigned and read by the touchmove handler alone, so it is  *)
(* the parameter y and no variable.                                        *)
(***************************************************************************)
TouchStart(x, y) ==
  /\ phase = "ready"
  /\ touches' = touches + 1
  /\ defaultPrevented' = FALSE
  /\ IF touches' # 1
     THEN UNCHANGED <<session, axis, primaryDown, gestureCommitted>>
     ELSE /\ primaryDown' = TRUE
          /\ gestureCommitted' = FALSE
          /\ startX' = x
          /\ startY' = y
          /\ currentX' = x
          /\ sinceStartTime' = 0
          /\ isDragging' = FALSE
          /\ isHorizontalSwipe' = FALSE
          /\ initialTransform' = (0 - currentSlide) * 100
          /\ axis' = "Undetermined"
  /\ UNCHANGED <<phase, totalSlides, slider, isMobile, transitionEnabled,
                 calls, lastCall, initLock, page, mouseStill, sinceChange>>

\* variant: a dominant horizontal movement is enough, whatever its length
HorizontalSwipeDominant(absX, absY) == absX > absY

\* isHorizontalSwipe as the touchmove handler decides it
HorizontalSwipe(absX, absY) == absX > absY /\ absX > AxisMinHorizontal

\* variant: the drag feedback runs for any drag, whatever its axis
HorizontalDragAnyAxis(dragging, horizontal) == dragging

\* the guard of the drag feedback: if (isDragging && isHorizontalSwipe)
HorizontalDrag(dragging, horizontal) == dragging /\ horizontal

TouchMove(x, y, offsetWidth) ==
  /\ phase = "ready"
  /\ touches >= 1
  /\ IF touches # 1
     THEN /\ defaultPrevented' = FALSE
          /\ UNCHANGED <<currentX, isDragging, isHorizontalSwipe,
                         transitionEnabled, trackTransform, axis>>
     ELSE LET diffX == x - startX
              diffY == y - startY
              absX == Abs(diffX)
              absY == Abs(diffY)
              classify == /\ ~isDragging /\ ~isHorizontalSwipe
                          /\ (absX > AxisMinMovement \/ absY > AxisMinMovement)
              horizontal == IF classify
                            THEN HorizontalSwipe(absX, absY)
                            ELSE isHorizontalSwipe
              dragging == IF classify /\ horizontal THEN TRUE ELSE isDragging
          IN  /\ currentX' = x
              /\ isHorizontalSwipe' = horizontal
              /\ isDragging' = dragging
              /\ transitionEnabled' =
                   IF classify /\ horizontal THEN FALSE ELSE transitionEnabled
              /\ trackTransform' =
                   IF HorizontalDrag(dragging, horizontal)
                   THEN ResistanceTransform(diffX, offsetWidth, TouchResistance)
                   ELSE trackTransform
              /\ defaultPrevented' = HorizontalDrag(dragging, horizontal)
              /\ axis' = IF axis = "Undetermined" /\ classify
                         THEN IF horizontal THEN "Horizontal" ELSE "Vertical"
                         ELSE axis
  /\ UNCHANGED <<phase, totalSlides, currentSlide, isAnimating, timers,
                 indicatorIndex, startX,
                 startY, sinceStartTime, initialTransform, isMobile, touches,
                 primaryDown, gestureCommitted, calls, lastCall, initLock, page, mouseStill, sinceChange>>

TouchEnd ==
  /\ phase = "ready"
  /\ touches >= 1
  /\ touches' = touches - 1
  /\ \/ primaryDown /\ primaryDown' = FALSE
     \/ touches > (IF primaryDown THEN 1 ELSE 0) /\ primaryDown' = primaryDown
  /\ defaultPrevented' = (isDragging /\ isHorizontalSwipe)
  /\ IF ~isDragging \/ ~isHorizontalSwipe
     THEN UNCHANGED <<slider, transitionEnabled>>
     ELSE /\ transitionEnabled' = TRUE
          /\ Release(currentX - startX, sinceStartTime, TouchThreshold,
                     TouchMinVelocity, TouchMinDistance)
  /\ isDragging' = FALSE
  /\ isHorizontalSwipe' = FALSE
  /\ axis' = "NoSession"
  /\ Changed
  /\ gestureCommitted' =
       (touches' > 0 /\ (gestureCommitted \/ currentSlide' # currentSlide))
  /\ UNCHANGED <<phase, totalSlides, startX, startY, currentX,
                 sinceStartTime, initialTransform, isMobile, calls, lastCall, initLock, page, mouseStill>>

\* touchcancel and the blur of the window: the slider has no listener for
\* either.  The browser drops every contact on a touchcancel.
TouchCancel ==
  /\ phase = "ready"
  /\ touches >= 1
  /\ touches' = 0
  /\ primaryDown' = FALSE
  /\ gestureCommitted' = FALSE
  /\ UNCHANGED <<phase, totalSlides, slider, session, isMobile,
                 transitionEnabled, defaultPrevented, calls, lastCall, initLock, page, mouseStill, axis,
                 sinceChange>>

WindowBlur ==
  /\ phase = "ready"
  /\ UNCHANGED vars

\* the mouse listeners bound on the document: setupTouchNavigation adds
\* them when it runs and nothing in the program removes them
DocumentListeners ==
  IF phase = "ready" THEN {"mousemove", "mouseup"} ELSE {}

(***************************************************************************)
(* Mouse handlers: mousedown and mouseleave on the container, mousemove    *)
(* and mouseup on the document.                                            *)
(***************************************************************************)
MouseDown(x) ==
  /\ phase = "ready"
  /\ mouseStill' = TRUE
  /\ IF isMobile
     THEN UNCHANGED <<startX, sinceStartTime, isDragging, initialTransform,
                      transitionEnabled>>
     ELSE /\ startX' = x
          /\ sinceStartTime' = 0
          /\ isDragging' = TRUE
          /\ initialTransform' = (0 - currentSlide) * 100
          /\ transitionEnabled' = FALSE
  /\ UNCHANGED <<phase, totalSlides, slider, startY, currentX,
                 isMobile, isHorizontalSwipe, contacts, calls, lastCall, initLock, page, axis,
                 sinceChange>>

MouseMove(x, offsetWidth) ==
  /\ phase = "ready"
  /\ mouseStill' = FALSE
  /\ IF ~isDragging \/ isMobile
     THEN UNCHANGED <<currentX, trackTransform>>
     ELSE /\ currentX' = x
          /\ trackTransform' =
               IF Abs(x - startX) > MouseFeedbackMin
               THEN ResistanceTransform(x - startX, offsetWidth, MouseResistance)
               ELSE trackTransform
  /\ UNCHANGED <<phase, totalSlides, currentSlide, isAnimating, timers,
                 indicatorIndex, startX,
                 startY, isDragging, sinceStartTime, isMobile,
                 initialTransform, isHorizontalSwipe, transitionEnabled,
                 contacts, calls, lastCall, initLock, page, axis, sinceChange>>

MouseUp ==
  /\ phase = "ready"
  /\ IF ~isDragging \/ isMobile
     THEN UNCHANGED <<slider, transitionEnabled, isDragging>>
     ELSE /\ transitionEnabled' = TRUE
          /\ Release(currentX - startX, sinceStartTime, MouseThreshold,
                     MouseMinVelocity, MouseMinDistance)
          /\ isDragging' = FALSE
  /\ Changed
  /\ UNCHANGED <<phase, totalSlides, startX, startY, currentX,
                 sinceStartTime, isMobile, initialTransform, isHorizontalSwipe,
                 contacts, calls, lastCall, initLock, page, mouseStill, axis>>

\* variant: the track snaps back but the drag stays active
MouseLeaveKeepsDrag ==
  /\ phase = "ready"
  /\ IF isDragging /\ ~isMobile
     THEN /\ transitionEnabled' = TRUE
          /\ SnapBack
          /\ isDragging' = isDragging
     ELSE UNCHANGED <<slider, transitionEnabled, isDragging>>
  /\ Changed
  /\ UNCHANGED <<phase, totalSlides, startX, startY, currentX,
                 sinceStartTime, isMobile, initialTransform, isHorizontalSwipe,
                 contacts, calls, lastCall, initLock, page, mouseStill, axis>>

MouseLeave ==
  /\ phase = "ready"
  /\ IF isDragging /\ ~isMobile
     THEN /\ transitionEnabled' = TRUE
          /\ SnapBack
          /\ isDragging' = FALSE
     ELSE UNCHANGED <<slider, transitionEnabled, isDragging>>
  /\ Changed
  /\ UNCHANGED <<phase, totalSlides, startX, startY, currentX,
                 sinceStartTime, isMobile, initialTransform, isHorizontalSwipe,
                 contacts, calls, lastCall, initLock, page, mouseStill, axis>>

\* the resize listener: isMobile = window.innerWidth <= 767
Resize(mobile) ==
  /\ phase = "ready"
  /\ isMobile' = mobile
  /\ navActive' = IF mobile THEN navActive ELSE {}
  /\ UNCHANGED <<phase, totalSlides, slider, session, transitionEnabled,
                 contacts, calls, lastCall, initLock, scroll, animation,
                 menuHandlers,
                 fallbackPending, tapDown, tapChanges, mouseStill, axis,
                 sinceChange>>

(***************************************************************************)
(* Discrete commands: the keyboard, the two buttons, the indicators.       *)
(***************************************************************************)
discrete == <<phase, totalSlides, session, isMobile, transitionEnabled,
              contacts, mouseStill, axis>>

\* variant: Home goes to the last slide and End to the first
KeyDownHomeEndSwapped(key) ==
  /\ phase = "ready"
  /\ CASE key = "ArrowLeft" -> PreviousSlide
       [] key = "ArrowRight" -> NextSlide
       [] key = "Home" -> GoToSlide(totalSlides - 1)
       [] key = "End" -> GoToSlide(0)
       [] OTHER -> UNCHANGED slider
  /\ Changed
  /\ UNCHANGED <<discrete, calls, lastCall, initLock, page>>

KeyDown(key) ==
  /\ phase = "ready"
  /\ CASE key = "ArrowLeft" -> PreviousSlide
       [] key = "ArrowRight" -> NextSlide
       [] key = "Home" -> GoToSlide(0)
       [] key = "End" -> GoToSlide(totalSlides - 1)
       [] OTHER -> UNCHANGED slider
  /\ Changed
  /\ UNCHANGED <<discrete, calls, lastCall, initLock, page>>

PrevClick ==
  /\ phase = "ready"
  /\ PreviousSlide
  /\ Changed
  /\ UNCHANGED <<discrete, calls, lastCall, initLock, page>>

NextClick ==
  /\ phase = "ready"
  /\ NextSlide
  /\ Changed
  /\ UNCHANGED <<discrete, calls, lastCall, initLock, page>>

\* the document holds one indicator per slide
IndicatorClick(index) ==
  /\ phase = "ready"
  /\ index < totalSlides
  /\ GoToSlide(index)
  /\ Changed
  /\ UNCHANGED <<discrete, calls, lastCall, initLock, page>>

\* goToSlide called by other code with an arbitrary argument
CallGoToSlide(slideIndex) ==
  /\ phase = "ready"
  /\ GoToSlide(slideIndex)
  /\ Changed
  /\ UNCHANGED <<discrete, calls, lastCall, initLock, page>>

\* nextSlide called directly
CallNextSlide ==
  /\ phase = "ready"
  /\ NextSlide
  /\ Changed
  /\ calls' = calls + 1
  /\ lastCall' = [name |-> "next", from |-> currentSlide, clear |-> ~isAnimating]
  /\ UNCHANGED <<discrete, initLock, page>>

CallPreviousSlide ==
  /\ phase = "ready"
  /\ PreviousSlide
  /\ Changed
  /\ lastCall' = [name |-> "previous", from |-> currentSlide,
                  clear |-> ~isAnimating]
  /\ UNCHANGED <<discrete, calls, initLock, page>>

(***************************************************************************)
(* Time.  There is no absolute clock in the state: each pending timer is   *)
(* kept as the time it has left, and Date.now() - startTime as the time    *)
(* elapsed, saturated at MaxElapsed (past 167 ms no velocity test can      *)
(* succeed for a displacement within the distance threshold, so the        *)
(* saturation loses no decision).  Time advances in steps of TickStep and  *)
(* does not pass a timer that is due; handlers take no time.  Timers with  *)
(* the same time left are one element of the set: their callbacks do the   *)
(* same assignment.                                                        *)
(***************************************************************************)
TimerFire ==
  /\ 0 \in timers
  /\ isAnimating' = FALSE
  /\ timers' = timers \ {0}
  /\ initLock' = FALSE
  /\ UNCHANGED <<phase, currentSlide, totalSlides, session, isMobile,
                 trackTransform, indicatorIndex, transitionEnabled, contacts,
                 calls, lastCall, page, mouseStill, axis, sinceChange>>

Tick ==
  /\ 0 \notin timers
  /\ timers' = {IF t > TickStep THEN t - TickStep ELSE 0 : t \in timers}
  /\ sinceStartTime' = Min(sinceStartTime + TickStep, MaxElapsed)
  /\ sinceChange' = Min(sinceChange + TickStep, TransitionMs)
  /\ UNCHANGED <<phase, currentSlide, totalSlides, isAnimating, startX, startY,
                 currentX, isDragging, isMobile, initialTransform,
                 isHorizontalSwipe, trackTransform, indicatorIndex,
                 transitionEnabled, contacts, calls, lastCall, initLock, page, mouseStill, axis>>

\* time passes by any amount that does not pass a timer that is due
Elapse(ms) ==
  /\ \A t \in timers : t >= ms
  /\ timers' = {t - ms : t \in timers}
  /\ sinceStartTime' = Min(sinceStartTime + ms, MaxElapsed)
  /\ sinceChange' = Min(sinceChange + ms, TransitionMs)
  /\ UNCHANGED <<phase, currentSlide, totalSlides, isAnimating, startX, startY,
                 currentX, isDragging, isMobile, initialTransform,
                 isHorizontalSwipe, trackTransform, indicatorIndex,
                 transitionEnabled, contacts, calls, lastCall, initLock, page, mouseStill, axis>>

(***************************************************************************)
(* Smooth scrolling.  The click listener of every link whose href begins   *)
(* with '#' scrolls to the target section, by one smooth request where the *)
(* browser supports it and by an animation of instant requests, one per    *)
(* frame, where it does not.  The document has a navbar.  A smooth request *)
(* leaves the window at its destination.                                   *)
(***************************************************************************)
\* t /= d / 2; t < 1 ? c / 2 * t * t + b : (t--, -c / 2 * (t * (t - 2) - 1) + b)
EaseInOutQuad(t, b, c, d) ==
  IF 2 * t < d
  THEN (c * (2 * t) * (2 * t)) \div (2 * d * d) + b
  ELSE ((0 - c) * ((2 * t - d) * (2 * t - 3 * d) - d * d)) \div (2 * d * d) + b

ScrollTarget(offsetTop, navbarHeight) == offsetTop - navbarHeight - ExtraPadding

LinkClick(exists, offsetTop, navbarHeight) ==
  /\ phase = "ready"
  /\ prevented' = TRUE
  /\ IF ~exists
     THEN /\ scrollCalls' = <<>>
          /\ UNCHANGED <<pageYOffset, scrollAnimations>>
     ELSE LET top == ScrollTarget(offsetTop, navbarHeight)
          IN  IF smoothSupported
              THEN /\ scrollCalls' = <<[top |-> top, behavior |-> "smooth"]>>
                   /\ pageYOffset' = top
                   /\ UNCHANGED scrollAnimations
              ELSE /\ scrollCalls' = <<>>
                   /\ scrollAnimations' = scrollAnimations \cup
                        {[start |-> pageYOffset, distance |-> top - pageYOffset,
                          elapsed |-> 0 - 1]}
                   /\ UNCHANGED pageYOffset
  /\ UNCHANGED <<portfolio, smoothSupported, animation, menu>>

\* a frame of a fallback animation: the first one fixes startTime
AnimationFrame(a) ==
  /\ a \in scrollAnimations
  /\ LET timeElapsed == IF a.elapsed < 0 THEN 0 ELSE a.elapsed + FrameStep
         run == EaseInOutQuad(timeElapsed, a.start, a.distance, ScrollDuration)
     IN  /\ scrollCalls' = Append(scrollCalls, [top |-> run, behavior |-> "instant"])
         /\ pageYOffset' = run
         /\ scrollAnimations' =
              (scrollAnimations \ {a}) \cup
                (IF timeElapsed < ScrollDuration
                 THEN {[a EXCEPT !.elapsed = timeElapsed]}
                 ELSE {})
  /\ UNCHANGED <<portfolio, smoothSupported, prevented, animation, menu>>

(***************************************************************************)
(* The links of a loaded page, in a browser with or without smooth         *)
(* scrolling; at most MaxAnimations fallback animations run at a time.     *)
(***************************************************************************)
ScrollInit ==
  /\ phase = "ready"
  /\ totalSlides = MaxSlides
  /\ currentSlide = 0
  /\ isAnimating = FALSE
  /\ timers = {}
  /\ startX = 0 /\ startY = 0 /\ currentX = 0
  /\ isDragging = FALSE
  /\ sinceStartTime = MaxElapsed
  /\ isMobile \in BOOLEAN
  /\ initialTransform = 0
  /\ isHorizontalSwipe = FALSE
  /\ trackTransform = 0
  /\ indicatorIndex = currentSlide
  /\ transitionEnabled = TRUE
  /\ touches = 0
  /\ defaultPrevented = FALSE
  /\ primaryDown = FALSE
  /\ gestureCommitted = FALSE
  /\ calls = 0
  /\ lastCall = NoCall
  /\ initLock = FALSE
  /\ mouseStill = FALSE
  /\ axis = "NoSession"
  /\ sinceChange = TransitionMs
  /\ smoothSupported \in BOOLEAN
  /\ PageReady

ScrollNext ==
  \/ /\ smoothSupported \/ Cardinality(scrollAnimations) < MaxAnimations
     /\ \E exists \in BOOLEAN, t \in OffsetTops, h \in NavbarHeights :
          LinkClick(exists, t, h)
  \/ \E a \in scrollAnimations : AnimationFrame(a)

ScrollSpec == ScrollInit /\ [][ScrollNext]_vars

(***************************************************************************)
(* Scroll animations.  The observer callback takes a batch of entries, one *)
(* for each element whose intersection has changed; the class it adds      *)
(* depends on the kind of the element.                                     *)
(***************************************************************************)
AnimationClass(element) ==
  CASE element = "section" -> "animate-fade-in"
    [] element \in {"tool-card", "benefit-item"} -> "animate-slide-up"
    [] element \in {"services-li", "plugins-li"} -> "animate-slide-in-left"
    [] element = "results-statement" -> "animate-scale-in"
    [] element = "portfolio-slider" -> "animate-slide-up"
    [] OTHER -> "animate-fade-in"

Entries == [target : Elements, isIntersecting : BOOLEAN]
EntryBatches == UNION {[1 .. n -> Entries] : n \in 1 .. MaxEntries}

\* the batch holds an entry that reports the element intersecting
Intersecting(entries, element) ==
  \E i \in 1 .. Len(entries) :
    entries[i].target = element /\ entries[i].isIntersecting

\* variant: the class is added but the element stays observed
ObserverCallbackKeepsObserving(entries) ==
  /\ phase = "ready"
  /\ classList' = [e \in Elements |->
                     IF Intersecting(entries, e)
                     THEN classList[e] \cup {AnimationClass(e)}
                     ELSE classList[e]]
  /\ observed' = observed
  /\ repeated' = repeated \cup
       {e \in Elements : Intersecting(entries, e) /\ classList[e] # {}}
  /\ reported' = {e \in Elements : Intersecting(entries, e)}
  /\ UNCHANGED <<portfolio, scroll, menu>>

ObserverCallback(entries) ==
  /\ phase = "ready"
  /\ classList' = [e \in Elements |->
                     IF Intersecting(entries, e)
                     THEN classList[e] \cup {AnimationClass(e)}
                     ELSE classList[e]]
  /\ observed' = observed \ {e \in Elements : Intersecting(entries, e)}
  /\ repeated' = repeated \cup
       {e \in Elements : Intersecting(entries, e) /\ classList[e] # {}}
  /\ reported' = {e \in Elements : Intersecting(entries, e)}
  /\ UNCHANGED <<portfolio, scroll, menu>>

\* cleanup() disconnects the observer
Cleanup ==
  /\ phase = "ready"
  /\ observed' = {}
  /\ reported' = {}
  /\ UNCHANGED <<portfolio, scroll, classList, repeated, menu>>

(***************************************************************************)
(* The mobile menu.  Three paths bind handlers to the toggle: the main     *)
(* set-up (a pointerdown listener that toggles each class), the emergency  *)
(* script (the onclick property) and the delayed fallback (click, touchend *)
(* and pointerdown listeners, bound only when it finds neither an onclick  *)
(* nor the data-menu-initialized attribute).  The last two open the menu   *)
(* when navMenu is not active and close it otherwise.                      *)
(***************************************************************************)
MenuElements == {"navToggle", "navMenu", "body"}

\* classList.toggle on each of the three elements
ToggleClasses(active) == MenuElements \ active

\* fallbackToggle and the emergency onclick: by navMenu's 'active'
OpenOrClose(active) ==
  IF "navMenu" \in active THEN {} ELSE MenuElements

MenuOpen(active) == "navMenu" \in active

\* the emergency script's initEmergencyMenu, run when the script is
\* evaluated, at DOMContentLoaded and after 1000 ms
InitEmergencyMenu ==
  /\ menuHandlers' = menuHandlers \cup {"emergency"}
  /\ UNCHANGED <<portfolio, scroll, animation, navActive, fallbackPending,
                 tapDown, tapChanges>>

\* the fallback's timer callback
FallbackTimeout ==
  /\ fallbackPending
  /\ fallbackPending' = FALSE
  /\ menuHandlers' = IF "emergency" \notin menuHandlers
                        /\ "fallback" \notin menuHandlers
                     THEN menuHandlers \cup {"fallback"}
                     ELSE menuHandlers
  /\ UNCHANGED <<portfolio, scroll, animation, navActive, tapDown, tapChanges>>

\* the listeners of an event on the toggle, in the order they were bound
PointerDownListeners ==
  (IF "main" \in menuHandlers THEN <<"toggle">> ELSE <<>>)
    \o (IF "fallback" \in menuHandlers THEN <<"openOrClose">> ELSE <<>>)

ClickListeners ==
  (IF "emergency" \in menuHandlers THEN <<"openOrClose">> ELSE <<>>)
    \o (IF "fallback" \in menuHandlers THEN <<"openOrClose">> ELSE <<>>)

RECURSIVE Dispatch(_, _)
Dispatch(listeners, active) ==
  IF listeners = <<>> THEN active
  ELSE Dispatch(Tail(listeners),
                IF Head(listeners) = "toggle" THEN ToggleClasses(active)
                ELSE OpenOrClose(active))

\* open/closed changes the listeners make, run one after the other
RECURSIVE Changes(_, _)
Changes(listeners, active) ==
  IF listeners = <<>> THEN 0
  ELSE LET after == IF Head(listeners) = "toggle" THEN ToggleClasses(active)
                    ELSE OpenOrClose(active)
       IN (IF MenuOpen(after) # MenuOpen(active) THEN 1 ELSE 0)
            + Changes(Tail(listeners), after)

\* a tap on the toggle begins: its pointerdown
MenuPointerDown ==
  /\ ~tapDown
  /\ tapDown' = TRUE
  /\ navActive' = Dispatch(PointerDownListeners, navActive)
  /\ tapChanges' = Changes(PointerDownListeners, navActive)
  /\ UNCHANGED <<portfolio, scroll, animation, menuHandlers, fallbackPending>>

\* the tap's click; the document's click listener leaves a click inside the
\* toggle alone
MenuClick ==
  /\ tapDown
  /\ tapDown' = FALSE
  /\ navActive' = Dispatch(ClickListeners, navActive)
  /\ tapChanges' = tapChanges + Changes(ClickListeners, navActive)
  /\ UNCHANGED <<portfolio, scroll, animation, menuHandlers, fallbackPending>>

\* a click on a nav link or outside the menu, or the Escape key
MenuClose ==
  /\ phase = "ready"
  /\ ~tapDown
  /\ navActive' = {}
  /\ UNCHANGED <<portfolio, scroll, animation, menuHandlers, fallbackPending,
                 tapDown, tapChanges>>

(***************************************************************************)
(* The menu from the evaluation of the scripts on: taps at any moment of   *)
(* the start-up and after it.                                              *)
(***************************************************************************)
MenuNext ==
  \/ \E n \in 0 .. MaxSlides, mobile \in BOOLEAN : DOMContentLoaded(n, mobile)
  \/ InitEmergencyMenu
  \/ FallbackTimeout
  \/ MenuPointerDown
  \/ MenuClick
  \/ MenuClose
  \/ \E mobile \in BOOLEAN : Resize(mobile)

MenuSpec == Init /\ [][MenuNext]_vars

(***************************************************************************)
(* The scroll observer from start-up on: batches of up to MaxEntries       *)
(* entries, about any element and in any order, and the cleanup.           *)
(***************************************************************************)
ObserverNext ==
  \/ DOMContentLoaded(MaxSlides, FALSE)
  \/ \E entries \in EntryBatches : ObserverCallback(entries)
  \/ Cleanup

ObserverSpec == Init /\ [][ObserverNext]_vars

(***************************************************************************)
(* The slider driven by its user interface, one contact at a time.         *)
(***************************************************************************)
Next ==
  \/ \E n \in 0 .. MaxSlides, mobile \in BOOLEAN : DOMContentLoaded(n, mobile)
  \/ /\ touches = 0
     /\ \E x \in StartXs, y \in StartYs : TouchStart(x, y)
  \/ \E x \in TouchXs, y \in TouchYs, w \in ContainerWidths : TouchMove(x, y, w)
  \/ TouchEnd
  \/ \E x \in StartXs : MouseDown(x)
  \/ \E x \in MouseXs, w \in ContainerWidths : MouseMove(x, w)
  \/ MouseUp
  \/ MouseLeave
  \/ \E mobile \in BOOLEAN : Resize(mobile)
  \/ \E key \in Keys : KeyDown(key)
  \/ PrevClick
  \/ NextClick
  \/ \E index \in 0 .. (MaxSlides - 1) : IndicatorClick(index)
  \/ TimerFire
  \/ Tick

Spec == Init /\ [][Next]_vars

(***************************************************************************)
(* The slider from start-up on under requests alone: the keyboard, the     *)
(* buttons, the indicators and direct calls, with timers that do fire.     *)
(* goToSlide is called with any argument while the lock of the             *)
(* initialization is held and with the index of a slide afterwards.        *)
(***************************************************************************)
Request ==
  \/ \E key \in Keys : KeyDown(key)
  \/ PrevClick
  \/ NextClick
  \/ \E index \in 0 .. (MaxSlides - 1) : IndicatorClick(index)
  \/ \E slideIndex \in GoToInputs :
       /\ initLock \/ slideIndex \in 0 .. (totalSlides - 1)
       /\ CallGoToSlide(slideIndex)
  \/ calls < MaxSlides /\ CallNextSlide
  \/ CallPreviousSlide

StartNext ==
  \/ \E n \in 0 .. MaxSlides, mobile \in BOOLEAN : DOMContentLoaded(n, mobile)
  \/ Request
  \/ TimerFire
  \/ Tick

StartSpec == Init /\ [][StartNext]_vars /\ WF_vars(Tick) /\ WF_vars(TimerFire)

(***************************************************************************)
(* The lock and its release: the commands and the mouse, which engage the  *)
(* lock by a change of slide or by a snap back, with timers that do fire:  *)
(* time passes and a callback that is due runs.                            *)
(***************************************************************************)
LockNext ==
  \/ \E n \in 0 .. MaxSlides, mobile \in BOOLEAN : DOMContentLoaded(n, mobile)
  \/ \E x \in StartXs : MouseDown(x)
  \/ \E x \in MouseXs, w \in ContainerWidths : MouseMove(x, w)
  \/ MouseUp
  \/ MouseLeave
  \/ \E key \in Keys : KeyDown(key)
  \/ PrevClick
  \/ NextClick
  \/ \E index \in 0 .. (MaxSlides - 1) : IndicatorClick(index)
  \/ TimerFire
  \/ Tick

LockSpec == Init /\ [][LockNext]_vars /\ WF_vars(Tick) /\ WF_vars(TimerFire)

(***************************************************************************)
(* The slider with goToSlide also called directly, with any argument.      *)
(* previousSlide decreases a negative index without bound, so the user     *)
(* interface is followed only while the index is not negative.             *)
(***************************************************************************)
ApiNext ==
  \/ currentSlide >= 0 /\ Next
  \/ \E slideIndex \in GoToInputs : CallGoToSlide(slideIndex)

ApiSpec == Init /\ [][ApiNext]_vars

(***************************************************************************)
(* One touch gesture on a slider of 5 slides at index 0 with the lock      *)
(* clear, on a container 300 px wide: a touchstart, touchmoves to any      *)
(* point up to 60 px to the left, up to 200 ms in steps of 50 ms, and the  *)
(* touchend.                                                               *)
(***************************************************************************)
ScenarioInit ==
  /\ phase = "ready"
  /\ totalSlides = 5
  /\ currentSlide = 0
  /\ isAnimating = FALSE
  /\ timers = {}
  /\ startX = 0 /\ startY = 0 /\ currentX = 0
  /\ isDragging = FALSE
  /\ sinceStartTime = MaxElapsed
  /\ isMobile \in BOOLEAN
  /\ initialTransform = 0
  /\ isHorizontalSwipe = FALSE
  /\ trackTransform = 0
  /\ indicatorIndex = currentSlide
  /\ transitionEnabled = TRUE
  /\ touches = 0
  /\ defaultPrevented = FALSE
  /\ primaryDown = FALSE
  /\ gestureCommitted = FALSE
  /\ calls = 0
  /\ lastCall = NoCall
  /\ initLock = FALSE
  /\ mouseStill = FALSE
  /\ axis = "NoSession"
  /\ sinceChange = TransitionMs
  /\ smoothSupported = TRUE
  /\ PageReady

ScenarioNext ==
  \/ /\ touches = 0 /\ currentSlide = 0 /\ ~isAnimating
     /\ \E x \in StartXs, y \in StartYs : TouchStart(x, y)
  \/ \E dx \in (0 - 60) .. 0 : TouchMove(startX + dx, startY, 300)
  \/ touches = 1 /\ sinceStartTime < 200 /\ Elapse(50)
  \/ TouchEnd

ScenarioSpec == ScenarioInit /\ [][ScenarioNext]_vars

(***************************************************************************)
(* The slider driven from the keyboard alone.                              *)
(***************************************************************************)
KeyNext ==
  \/ \E n \in 0 .. WrapMaxSlides, mobile \in BOOLEAN : DOMContentLoaded(n, mobile)
  \/ \E key \in Keys : KeyDown(key)
  \/ TimerFire
  \/ Tick

KeySpec == Init /\ [][KeyNext]_vars

(***************************************************************************)
(* The slider under touch gestures and mouse releases, with no mousedown   *)
(* on the container: the button was pressed elsewhere, and the mouseup     *)
(* listener is bound on the document.                                      *)
(***************************************************************************)
UnmatchedNext ==
  \/ \E n \in 0 .. MaxSlides, mobile \in BOOLEAN : DOMContentLoaded(n, mobile)
  \/ touches = 0 /\ \E x \in StartXs, y \in StartYs : TouchStart(x, y)
  \/ \E x \in TouchXs, y \in TouchYs, w \in ContainerWidths : TouchMove(x, y, w)
  \/ TouchEnd
  \/ MouseUp
  \/ TimerFire
  \/ Tick

UnmatchedSpec == Init /\ [][UnmatchedNext]_vars

(***************************************************************************)
(* The slider of a document without slides: every command, goToSlide with  *)
(* any argument, touch gestures and mouse drags.  Such a document has no   *)
(* indicators.                                                             *)
(***************************************************************************)
ZeroNext ==
  \/ \E mobile \in BOOLEAN : DOMContentLoaded(0, mobile)
  \/ /\ touches = 0
     /\ \E x \in StartXs, y \in StartYs : TouchStart(x, y)
  \/ \E x \in TouchXs, y \in TouchYs, w \in ContainerWidths : TouchMove(x, y, w)
  \/ TouchEnd
  \/ \E x \in StartXs : MouseDown(x)
  \/ \E x \in MouseXs, w \in ContainerWidths : MouseMove(x, w)
  \/ MouseUp
  \/ MouseLeave
  \/ \E key \in Keys : KeyDown(key)
  \/ PrevClick
  \/ NextClick
  \/ \E slideIndex \in GoToInputs : CallGoToSlide(slideIndex)
  \/ TimerFire
  \/ Tick

ZeroSpec == Init /\ [][ZeroNext]_vars

(***************************************************************************)
(* The slider on a touch screen that reports up to MaxContacts contacts,   *)
(* cancels touch sessions and takes the focus away from the window.        *)
(***************************************************************************)
MultiTouchNext ==
  \/ \E n \in 0 .. MaxSlides, mobile \in BOOLEAN : DOMContentLoaded(n, mobile)
  \/ /\ touches < MaxContacts
     /\ \E x \in StartXs, y \in StartYs : TouchStart(x, y)
  \/ \E x \in TouchXs, y \in TouchYs, w \in ContainerWidths : TouchMove(x, y, w)
  \/ TouchEnd
  \/ TouchCancel
  \/ WindowBlur
  \/ TimerFire
  \/ Tick

MultiTouchSpec == Init /\ [][MultiTouchNext]_vars

(***************************************************************************)
(* The release decision on its own: a horizontal touch drag or a mouse     *)
(* drag in progress, with any displacement and any elapsed time, and then  *)
(* the release handlers.                                                   *)
(***************************************************************************)
EvalInit ==
  /\ phase = "ready"
  /\ totalSlides = EvalSlides
  /\ currentSlide \in 0 .. (EvalSlides - 1)
  /\ isAnimating = FALSE
  /\ timers = {}
  /\ startX \in StartXs
  /\ startY \in StartYs
  /\ \E dx \in (0 - EvalMaxDx) .. EvalMaxDx : currentX = startX + dx
  /\ sinceStartTime \in 0 .. EvalMaxDt
  /\ isDragging = TRUE
  /\ isMobile = FALSE
  /\ initialTransform = (0 - currentSlide) * 100
  /\ \E touch \in BOOLEAN :
       /\ isHorizontalSwipe = touch
       /\ touches = IF touch THEN 1 ELSE 0
       /\ primaryDown = touch
       /\ defaultPrevented = touch
       /\ axis = IF touch THEN "Horizontal" ELSE "NoSession"
       /\ \E w \in ContainerWidths :
            trackTransform =
              IF touch \/ Abs(currentX - startX) > MouseFeedbackMin
              THEN ResistanceTransform(currentX - startX, w,
                     IF touch THEN TouchResistance ELSE MouseResistance)
              ELSE Pct(initialTransform)
  /\ indicatorIndex = currentSlide
  /\ transitionEnabled = FALSE
  /\ gestureCommitted = FALSE
  /\ calls = 0
  /\ lastCall = NoCall
  /\ initLock = FALSE
  /\ mouseStill = FALSE
  /\ sinceChange = TransitionMs
  /\ smoothSupported = TRUE
  /\ PageReady

EvalNext ==
  \/ TouchEnd
  \/ MouseUp

EvalSpec == EvalInit /\ [][EvalNext]_vars

(***************************************************************************)
(* The wrap-around on its own: a slider of 1 to WrapMaxSlides slides at    *)
(* index 0 with the lock clear, and then totalSlides calls of nextSlide,   *)
(* each made once the lock of the call before it has been released.        *)
(***************************************************************************)
WrapInit ==
  /\ phase = "ready"
  /\ totalSlides \in 1 .. WrapMaxSlides
  /\ currentSlide = 0
  /\ isAnimating = FALSE
  /\ timers = {}
  /\ startX = 0 /\ startY = 0 /\ currentX = 0
  /\ isDragging = FALSE
  /\ sinceStartTime = MaxElapsed
  /\ isMobile \in BOOLEAN
  /\ initialTransform = 0
  /\ isHorizontalSwipe = FALSE
  /\ trackTransform = 0
  /\ indicatorIndex = currentSlide
  /\ transitionEnabled = TRUE
  /\ touches = 0
  /\ defaultPrevented = FALSE
  /\ primaryDown = FALSE
  /\ gestureCommitted = FALSE
  /\ calls = 0
  /\ lastCall = NoCall
  /\ initLock = FALSE
  /\ mouseStill = FALSE
  /\ axis = "NoSession"
  /\ sinceChange = TransitionMs
  /\ smoothSupported = TRUE
  /\ PageReady

WrapNext ==
  \/ calls < totalSlides /\ ~isAnimating /\ CallNextSlide
  \/ TimerFire
  \/ Tick

WrapSpec == WrapInit /\ [][WrapNext]_vars

(***************************************************************************)
(* nextSlide and previousSlide called directly, in any order and at any    *)
(* time, on a slider of 1 to WrapMaxSlides slides at any valid index with  *)
(* the lock clear; at most WrapMaxSlides calls of nextSlide.               *)
(***************************************************************************)
InverseInit ==
  /\ phase = "ready"
  /\ totalSlides \in 1 .. WrapMaxSlides
  /\ currentSlide \in 0 .. (totalSlides - 1)
  /\ isAnimating = FALSE
  /\ timers = {}
  /\ startX = 0 /\ startY = 0 /\ currentX = 0
  /\ isDragging = FALSE
  /\ sinceStartTime = MaxElapsed
  /\ isMobile = FALSE
  /\ initialTransform = 0
  /\ isHorizontalSwipe = FALSE
  /\ trackTransform = Pct((0 - currentSlide) * 100)
  /\ indicatorIndex = currentSlide
  /\ transitionEnabled = TRUE
  /\ touches = 0
  /\ defaultPrevented = FALSE
  /\ primaryDown = FALSE
  /\ gestureCommitted = FALSE
  /\ calls = 0
  /\ lastCall = NoCall
  /\ initLock = FALSE
  /\ mouseStill = FALSE
  /\ axis = "NoSession"
  /\ sinceChange = TransitionMs
  /\ smoothSupported = TRUE
  /\ PageReady

InverseNext ==
  \/ calls < WrapMaxSlides /\ CallNextSlide
  \/ CallPreviousSlide
  \/ TimerFire
  \/ Tick

InverseSpec == InverseInit /\ [][InverseNext]_vars

(***************************************************************************)
(* The axis classification on its own: a touch session that has just       *)
(* begun, and then touchmoves to any point within AxisMaxDelta of the      *)
(* start point on either axis.                                             *)
(***************************************************************************)
AxisInit ==
  /\ phase = "ready"
  /\ totalSlides = EvalSlides
  /\ currentSlide \in 0 .. (EvalSlides - 1)
  /\ isAnimating = FALSE
  /\ timers = {}
  /\ startX \in StartXs
  /\ startY \in StartYs
  /\ currentX = startX
  /\ sinceStartTime = 0
  /\ isDragging = FALSE
  /\ isMobile = TRUE
  /\ initialTransform = (0 - currentSlide) * 100
  /\ isHorizontalSwipe = FALSE
  /\ trackTransform = Pct(initialTransform)
  /\ indicatorIndex = currentSlide
  /\ transitionEnabled = TRUE
  /\ touches = 1
  /\ defaultPrevented = FALSE
  /\ primaryDown = TRUE
  /\ gestureCommitted = FALSE
  /\ calls = 0
  /\ lastCall = NoCall
  /\ initLock = FALSE
  /\ mouseStill = FALSE
  /\ axis = "Undetermined"
  /\ sinceChange = TransitionMs
  /\ smoothSupported = TRUE
  /\ PageReady

AxisDeltas == (0 - AxisMaxDelta) .. AxisMaxDelta

AxisNext ==
  \E dx \in AxisDeltas, dy \in AxisDeltas, w \in ContainerWidths :
    TouchMove(startX + dx, startY + dy, w)

AxisSpec == AxisInit /\ [][AxisNext]_vars

(***************************************************************************)
(* The drag feedback on its own: a touch session or a mouse drag that has  *)
(* just begun on a slider of 1 to EvalSlides slides, and then moves to any *)
(* point within DragMaxPercent percent of the container width, in steps    *)
(* of one percent.                                                         *)
(***************************************************************************)
DragInit ==
  /\ phase = "ready"
  /\ totalSlides \in 1 .. EvalSlides
  /\ currentSlide \in 0 .. (totalSlides - 1)
  /\ isAnimating = FALSE
  /\ timers = {}
  /\ startX \in StartXs
  /\ startY \in StartYs
  /\ currentX = startX
  /\ sinceStartTime = 0
  /\ initialTransform = (0 - currentSlide) * 100
  /\ isHorizontalSwipe = FALSE
  /\ trackTransform = Pct(initialTransform)
  /\ indicatorIndex = currentSlide
  /\ \E touch \in BOOLEAN :
       /\ isMobile = touch
       /\ isDragging = ~touch
       /\ transitionEnabled = touch
       /\ touches = IF touch THEN 1 ELSE 0
       /\ primaryDown = touch
       /\ mouseStill = ~touch
       /\ axis = IF touch THEN "Undetermined" ELSE "NoSession"
  /\ defaultPrevented = FALSE
  /\ gestureCommitted = FALSE
  /\ calls = 0
  /\ lastCall = NoCall
  /\ initLock = FALSE
  /\ sinceChange = TransitionMs
  /\ smoothSupported = TRUE
  /\ PageReady

DragPercents == (0 - DragMaxPercent) .. DragMaxPercent

DragNext ==
  \/ \E p \in DragPercents, w \in ContainerWidths :
       TouchMove(startX + p * (w \div 100), startY, w)
  \/ \E p \in DragPercents, w \in ContainerWidths :
       MouseMove(startX + p * (w \div 100), w)

DragSpec == DragInit /\ [][DragNext]_vars

(***************************************************************************)
(* Vocabulary of the properties.                                           *)
(***************************************************************************)
InRange(i) == 0 <= i /\ i < totalSlides
BaseOffset == Pct((0 - currentSlide) * 100)

\* a touchmove or a touchend of the container
TouchMoveStep ==
  \E x \in TouchXs, y \in TouchYs, w \in ContainerWidths : TouchMove(x, y, w)

\* a touchstart of the container
TouchStartStep == \E x \in StartXs, y \in StartYs : TouchStart(x, y)

\* a release handler that gets past its guard and evaluates the gesture
TouchRelease == TouchEnd /\ isDragging /\ isHorizontalSwipe
MouseRelease == MouseUp /\ isDragging /\ ~isMobile

\* |d| <= distance and |d| / t <= velocity, for a duration t > 0
BelowThresholds(d, t, distance, velocity) ==
  /\ t > 0
  /\ Abs(d) <= distance
  /\ Abs(d) * velocity[2] <= velocity[1] * t

\* the displacement of the pointer between the mouse press and now
MouseDisplacement == IF mouseStill THEN 0 ELSE currentX - startX

\* the decision rule as the specification words it
RuleDecision(dx, dt, distance, velocity, minimum) ==
  LET commit == \/ Abs(dx) > distance
                \/ /\ Abs(dx) * velocity[2] > velocity[1] * dt
                   /\ Abs(dx) > minimum
  IN  IF ~commit THEN "Cancel" ELSE IF dx < 0 THEN "Advance" ELSE "Retreat"

\* the rule applied to the touch or mouse drag in progress
TouchDecision ==
  RuleDecision(currentX - startX, sinceStartTime, TouchThreshold,
               TouchMinVelocity, TouchMinDistance)
MouseDecision ==
  RuleDecision(currentX - startX, sinceStartTime, MouseThreshold,
               MouseMinVelocity, MouseMinDistance)

\* the index a decision leads to when the lock is clear
IndexAfter(decision) ==
  CASE decision = "Advance" -> (currentSlide + 1) % totalSlides
    [] decision = "Retreat" ->
         IF currentSlide = 0 THEN totalSlides - 1 ELSE currentSlide - 1
    [] OTHER -> currentSlide

\* the classification of a displacement as the specification words it
ClaimedAxis(dx, dy) ==
  IF Abs(dx) <= 10 /\ Abs(dy) <= 10
  THEN "Undetermined"
  ELSE IF Abs(dx) > Abs(dy) /\ Abs(dx) > 15 THEN "Horizontal" ELSE "Vertical"

\* the displayed offset of a raw offset as the specification words it,
\* in tenths of a percent, for a resistance factor f[1] / f[2]
ClaimedOffset(raw, f) ==
  LET low == (0 - (totalSlides - 1)) * 1000
      bound == IF raw > 0 THEN 0 ELSE low
  IN  IF low <= raw /\ raw <= 0
      THEN raw
      ELSE bound + ((raw - bound) * f[1]) \div f[2]

\* base plus the drag percent of the drag in progress, for a container width
RawOffset(w) == BaseOffset + ((currentX - startX) * 1000) \div w

(***************************************************************************)
(* C1.  Any two changes of currentSlide are at least TransitionMs apart,   *)
(* and isAnimating is true during the whole TransitionMs that follow each  *)
(* change of currentSlide.                                                 *)
(***************************************************************************)
C1_MutualExclusion ==
  /\ [](sinceChange < TransitionMs => isAnimating)
  /\ [][currentSlide' # currentSlide => sinceChange >= TransitionMs]_vars

(***************************************************************************)
(* C2.  goToSlide(i) with i < 0 or i >= totalSlides changes neither        *)
(* currentSlide nor the lock and its timers.                               *)
(***************************************************************************)
C2_OutOfRangeGoToIgnored ==
  [][\A i \in GoToInputs :
       (~InRange(i) /\ CallGoToSlide(i)) =>
         UNCHANGED <<currentSlide, isAnimating, timers>>]_vars

(***************************************************************************)
(* C3.  With at least one slide, whatever the buttons, indicators, keys,   *)
(* touch gestures and mouse drags did, 0 <= currentSlide <= totalSlides-1. *)
(***************************************************************************)
C3_IndexInRange == totalSlides >= 1 => InRange(currentSlide)

\* the index has wrapped backwards to the last slide and is locked there
C3_Witness ==
  /\ totalSlides >= 2
  /\ currentSlide = totalSlides - 1
  /\ isAnimating
  /\ sinceChange = 0

(***************************************************************************)
(* C4.  A touch or mouse drag whose displacement d and duration t satisfy  *)
(* |d| <= commit distance and |d|/t <= commit velocity resolves to Cancel: *)
(* the release leaves currentSlide as it was.                              *)
(***************************************************************************)
C4_SnapBackLaw ==
  [][/\ (TouchRelease /\ BelowThresholds(currentX - startX, sinceStartTime,
                                         TouchThreshold, TouchMinVelocity))
          => currentSlide' = currentSlide
     /\ (MouseRelease /\ BelowThresholds(MouseDisplacement, sinceStartTime,
                                         MouseThreshold, MouseMinVelocity))
          => currentSlide' = currentSlide]_vars

(***************************************************************************)
(* C5.  For every displacement dx and elapsed time dt > 0 the release of a *)
(* horizontal drag commits if |dx| > distance, else if |dx|/dt > velocity  *)
(* and |dx| > minimum, and cancels otherwise; a commit advances when       *)
(* dx < 0 and retreats when dx > 0 (touch 50, 0.3, 20; mouse 80, 0.5, 30). *)
(***************************************************************************)
C5_ReleaseDecision ==
  [][/\ (TouchRelease /\ sinceStartTime > 0 /\ ~isAnimating) =>
          currentSlide' = IndexAfter(RuleDecision(currentX - startX,
                                       sinceStartTime, 50, <<3, 10>>, 20))
     /\ (MouseRelease /\ sinceStartTime > 0 /\ ~isAnimating) =>
          currentSlide' = IndexAfter(RuleDecision(currentX - startX,
                                       sinceStartTime, 80, <<5, 10>>, 30))]_vars

\* a touch drag of -30 px released after 90 ms has advanced from slide 1
C5_Witness ==
  /\ ~isDragging
  /\ touches = 0
  /\ currentX - startX = 0 - 30
  /\ sinceStartTime = 90
  /\ initialTransform = 0 - 100
  /\ currentSlide = 2
  /\ isAnimating

(***************************************************************************)
(* C6.  While isAnimating is true no command and no gesture release        *)
(* changes currentSlide, and nothing is applied when the lock clears or    *)
(* as time passes.                                                         *)
(***************************************************************************)
C6_LockedRequestsDropped ==
  [][(isAnimating \/ TimerFire \/ Tick) => currentSlide' = currentSlide]_vars

\* a release that decided to change slide was dropped under the lock: the
\* drag is over and the track was left where the drag had put it
C6_Witness ==
  /\ isAnimating
  /\ ~isDragging
  /\ touches = 0
  /\ totalSlides >= 2
  /\ Abs(currentX - startX) > TouchThreshold
  /\ trackTransform # BaseOffset

C8_LatestTimerReleases == (\E t \in timers : t > 0) => isAnimating

(***************************************************************************)
(* C9.  Within a touch session the axis is classified at most once: the    *)
(* first classification, Horizontal or Vertical, stays the session's.      *)
(***************************************************************************)
C9_AxisClassifiedOnce ==
  /\ axis = "Vertical" => ~isHorizontalSwipe
  /\ axis = "Horizontal" => isHorizontalSwipe

(***************************************************************************)
(* C10.  In a touch session first classified Vertical no touchmove writes  *)
(* a track offset and the touchend changes neither currentSlide nor        *)
(* isAnimating.                                                            *)
(***************************************************************************)
C10_VerticalSessionInert ==
  [][(axis = "Vertical" /\ (TouchMoveStep \/ TouchEnd)) =>
       UNCHANGED <<trackTransform, currentSlide, isAnimating>>]_vars

(***************************************************************************)
(* C11.  A touchmove of a session that is not classified yet, at the       *)
(* displacement (dx, dy) from the touchstart, leaves the session           *)
(* Undetermined while max(|dx|, |dy|) <= 10, and otherwise classifies it   *)
(* Horizontal if and only if |dx| > |dy| and |dx| > 15, and Vertical if    *)
(* not; isHorizontalSwipe is true exactly for Horizontal.                  *)
(***************************************************************************)
C11_AxisClassifier ==
  [][\A dy \in AxisDeltas :
       LET dx == currentX' - startX
       IN  (/\ axis = "Undetermined"
            /\ \E w \in ContainerWidths : TouchMove(currentX', startY + dy, w))
           => /\ axis' = ClaimedAxis(dx, dy)
              /\ isHorizontalSwipe' = (ClaimedAxis(dx, dy) = "Horizontal")]_vars

\* a session classified Horizontal by a move of 16 px
C11_Witness ==
  /\ axis = "Horizontal"
  /\ isHorizontalSwipe
  /\ Abs(currentX - startX) = 16

(***************************************************************************)
(* C12.  A touch event is intercepted only for a session that is           *)
(* classified Horizontal at that event: a touchmove has its default        *)
(* suppressed or writes the track offset only if isHorizontalSwipe holds   *)
(* once the move is classified, a touchend has its default suppressed      *)
(* only if isHorizontalSwipe held when it arrived, and a touchstart is     *)
(* never intercepted.                                                      *)
(***************************************************************************)
C12_InterceptOnlyHorizontal ==
  [][/\ ((defaultPrevented' \/ trackTransform' # trackTransform) /\ TouchMoveStep)
          => isHorizontalSwipe'
     /\ (defaultPrevented' /\ TouchEnd) => isHorizontalSwipe
     /\ TouchStartStep
          => (~defaultPrevented' /\ trackTransform' = trackTransform)]_vars

\* a touchmove of a Horizontal session was intercepted and moved the track
C12_Witness ==
  /\ touches = 1
  /\ defaultPrevented
  /\ isDragging /\ isHorizontalSwipe
  /\ trackTransform # BaseOffset

(***************************************************************************)
(* C13.  The release of a mouse press that no mouse move followed          *)
(* resolves to Cancel: the displacement sampled during that interaction    *)
(* is zero, so currentSlide keeps its value, whatever an earlier touch or  *)
(* mouse interaction left in the session variables.                        *)
(***************************************************************************)
C13_PressReleaseCancels ==
  [][(MouseRelease /\ mouseStill) => currentSlide' = currentSlide]_vars

(***************************************************************************)
(* C14.  A gesture that resolves to Cancel (a touch release, a mouse       *)
(* release or a pointer-leave of a drag below the commit thresholds)       *)
(* changes neither currentSlide nor isAnimating.                           *)
(***************************************************************************)
C14_CancelLeavesLock ==
  [][(\/ TouchRelease /\ TouchDecision = "Cancel"
      \/ MouseRelease /\ MouseDecision = "Cancel"
      \/ MouseLeave /\ isDragging /\ ~isMobile /\ MouseDecision = "Cancel")
       => UNCHANGED <<currentSlide, isAnimating>>]_vars

(***************************************************************************)
(* C15.  A touchcancel or a blur of the window that arrives during a drag  *)
(* ends the session as a snap-back: isDragging becomes false, the track    *)
(* returns to -currentSlide * 100 % with the transition enabled, and       *)
(* currentSlide keeps its value.                                           *)
(***************************************************************************)
C15_CancelSnapsBack ==
  [][((TouchCancel \/ WindowBlur) /\ isDragging)
       => /\ ~isDragging'
          /\ trackTransform' = BaseOffset
          /\ transitionEnabled'
          /\ currentSlide' = currentSlide]_vars

C17_DragSurvivesLeave ==
  [][(MouseLeave /\ isDragging /\ ~isMobile) => isDragging']_vars

(***************************************************************************)
(* C18.  A touch event of a secondary contact (a touchstart while a        *)
(* contact is down, a touchmove or a touchend while the contact that       *)
(* began the gesture is lifted, a touchend that leaves that contact down)  *)
(* starts no drag, moves no track and resolves or commits nothing.         *)
(***************************************************************************)
C18_SecondaryContactInert ==
  [][(\/ TouchStartStep /\ touches > 0
      \/ TouchMoveStep /\ ~primaryDown
      \/ TouchEnd /\ (~primaryDown \/ primaryDown'))
       => UNCHANGED <<currentSlide, isAnimating, trackTransform, isDragging,
                      isHorizontalSwipe>>]_vars

(***************************************************************************)
(* C19.  A gesture, from the first contact or the mouse press until every  *)
(* contact or the button is released, changes currentSlide at most once:   *)
(* no touchend changes it after a touchend of the same gesture did; and a  *)
(* release that changes currentSlide moves it by exactly one step forward  *)
(* or backward modulo totalSlides.                                         *)
(***************************************************************************)
C19_OneChangePerGesture ==
  [][/\ (TouchEnd /\ gestureCommitted) => currentSlide' = currentSlide
     /\ ((TouchRelease \/ MouseRelease) /\ currentSlide' # currentSlide)
          => currentSlide' \in {(currentSlide + 1) % totalSlides,
                                (currentSlide + totalSlides - 1) % totalSlides}]_vars

(***************************************************************************)
(* C20.  On a slider of n >= 1 slides, n calls of nextSlide from index 0,  *)
(* each made while the lock is clear, bring currentSlide back to 0, and a  *)
(* call at the last index n - 1 yields 0.                                  *)
(***************************************************************************)
C20_WrapAround ==
  /\ [](calls = totalSlides => currentSlide = 0)
  /\ [][(CallNextSlide /\ ~isAnimating /\ currentSlide = totalSlides - 1)
          => currentSlide' = 0]_vars

\* the last of WrapMaxSlides calls has wrapped the index from the last slide
C20_Witness ==
  /\ totalSlides = WrapMaxSlides
  /\ calls = totalSlides
  /\ currentSlide = 0
  /\ sinceChange = 0

(***************************************************************************)
(* C21.  During a horizontal touch drag, and during a mouse drag past the  *)
(* feedback distance, the displayed offset is the raw offset (base plus    *)
(* drag percent) while the raw offset lies between -(totalSlides - 1) *    *)
(* 100 % and 0, and otherwise the violated bound plus the overshoot times  *)
(* 0.3 (touch) or 0.2 (mouse); the excess shown is smaller than the        *)
(* overshoot.                                                              *)
(***************************************************************************)
C21_ResistanceLaw ==
  \A w \in ContainerWidths :
    LET raw == RawOffset(w)
        touchDrag == touches = 1 /\ isDragging /\ isHorizontalSwipe
        mouseDrag == /\ touches = 0 /\ isDragging /\ ~mouseStill
                     /\ Abs(currentX - startX) > 5
    IN  /\ touchDrag => trackTransform = ClaimedOffset(raw, <<3, 10>>)
        /\ mouseDrag => trackTransform = ClaimedOffset(raw, <<2, 10>>)
        /\ (touchDrag \/ mouseDrag) /\ raw > 0
             => (0 < trackTransform /\ trackTransform < raw)
        /\ (touchDrag \/ mouseDrag) /\ raw < (0 - (totalSlides - 1)) * 1000
             => (raw < trackTransform
                 /\ trackTransform < (0 - (totalSlides - 1)) * 1000)

\* a touch drag 30 % past the first slide is shown 9 % past it
C21_Witness ==
  /\ touches = 1 /\ isDragging /\ isHorizontalSwipe
  /\ currentSlide = 0
  /\ RawOffset(300) = 300
  /\ trackTransform = 90

(***************************************************************************)
(* C22.  When the timers fire, every engagement of the lock is followed    *)
(* by a state with isAnimating false; and no input cancels or shortens a   *)
(* lock: only a timer callback clears isAnimating, and a step that is      *)
(* neither a callback nor the passage of time keeps the lock and every     *)
(* pending release.                                                        *)
(***************************************************************************)
C22_LockIsReleased ==
  /\ isAnimating ~> ~isAnimating
  /\ [][(isAnimating /\ ~isAnimating') => TimerFire]_vars
  /\ [][(isAnimating /\ ~(TimerFire \/ Tick))
          => (isAnimating' /\ timers \subseteq timers')]_vars

\* a command changed the index and its lock has been released since
C22_Witness ==
  /\ currentSlide = 1
  /\ ~isAnimating
  /\ timers = {}
  /\ sinceChange = TransitionMs

(***************************************************************************)
(* C23.  With totalSlides = 0 no step changes currentSlide: nextSlide,     *)
(* previousSlide, goToSlide with any argument, the keys (Home and End      *)
(* among them), touch gestures and mouse drags leave it at its value.      *)
(***************************************************************************)
C23_ZeroSlidesInert ==
  [][(totalSlides = 0 /\ totalSlides' = 0) => currentSlide' = currentSlide]_vars

\* a touch drag of 90 px was released on a slider without slides
C23_Witness ==
  /\ phase = "ready"
  /\ totalSlides = 0
  /\ touches = 0
  /\ defaultPrevented
  /\ currentX - startX = 0 - 90
  /\ currentSlide = 0

(***************************************************************************)
(* C24.  Scenario A: with 5 slides, currentSlide = 0 and the lock clear,   *)
(* the release of a touch drag of -60 px after 200 ms on a 300 px wide     *)
(* container finds the session Horizontal, resolves to Advance and leaves  *)
(* currentSlide = 1.                                                       *)
(***************************************************************************)
C24_ScenarioA ==
  [][(TouchEnd /\ currentX - startX = 0 - 60 /\ sinceStartTime = 200)
       => /\ isDragging /\ isHorizontalSwipe
          /\ TouchDecision = "Advance"
          /\ currentSlide' = 1]_vars

\* the gesture of the scenario has been released and has advanced the slider
C24_Witness ==
  /\ totalSlides = 5
  /\ currentSlide = 1
  /\ touches = 0
  /\ currentX - startX = 0 - 60
  /\ sinceStartTime = 200
  /\ isAnimating

(***************************************************************************)
(* C25.  A keydown on the slider container with the lock clear and at      *)
(* least one slide does what the command of the key does: ArrowLeft what   *)
(* previousSlide does, ArrowRight what nextSlide does, Home what           *)
(* goToSlide(0) does and End what goToSlide(totalSlides - 1) does.  Any    *)
(* other key leaves currentSlide and isAnimating as they are.              *)
(***************************************************************************)
KeyTarget(key) ==
  CASE key = "ArrowLeft" -> IndexAfter("Retreat")
    [] key = "ArrowRight" -> IndexAfter("Advance")
    [] key = "Home" -> 0
    [] key = "End" -> totalSlides - 1
    [] OTHER -> currentSlide

\* previousSlide and nextSlide always start a transition, goToSlide only
\* when the index differs
KeyStartsTransition(key) ==
  \/ key \in {"ArrowLeft", "ArrowRight"}
  \/ key \in {"Home", "End"} /\ KeyTarget(key) # currentSlide

C25_KeyboardCommands ==
  [][\A key \in Keys :
       /\ (~isAnimating /\ totalSlides >= 1 /\ KeyDown(key))
            => /\ currentSlide' = KeyTarget(key)
               /\ isAnimating' = KeyStartsTransition(key)
               /\ KeyStartsTransition(key)
                    => trackTransform' = Pct((0 - KeyTarget(key)) * 100)
       /\ (key \notin {"ArrowLeft", "ArrowRight", "Home", "End"} /\ KeyDown(key))
            => /\ currentSlide' = currentSlide
               /\ isAnimating' = isAnimating]_vars

\* the End key has moved the slider from the first slide to the last
C25_Witness ==
  /\ totalSlides = WrapMaxSlides
  /\ currentSlide = totalSlides - 1
  /\ isAnimating
  /\ sinceChange = 0
  /\ trackTransform = Pct((0 - currentSlide) * 100)

(***************************************************************************)
(* C26.  A release with no matching press is a no-op.  No mousedown is     *)
(* ever delivered here, so every mouseup is a release without a press: it  *)
(* leaves currentSlide, isAnimating and the track offset as they are.      *)
(***************************************************************************)
C26_UnmatchedReleaseInert ==
  [][MouseUp => UNCHANGED <<currentSlide, isAnimating, trackTransform>>]_vars

(***************************************************************************)
(* C27.  After every change of currentSlide exactly one indicator is       *)
(* marked active, the one at position currentSlide; all the others are     *)
(* marked inactive.                                                        *)
(***************************************************************************)
C27_OneActiveIndicator ==
  [][currentSlide' # currentSlide => ActiveIndicators' = {currentSlide'}]_vars

(***************************************************************************)
(* C28.  The mousemove and mouseup listeners of the document are bound     *)
(* only while a mouse drag is active: once a mouse drag has been released, *)
(* or has been ended by the pointer leaving the container, none of them    *)
(* remains bound.                                                          *)
(***************************************************************************)
C28_ListenersUnboundAfterDrag ==
  [][(isDragging /\ ~isMobile /\ touches = 0 /\ (MouseUp \/ MouseLeave))
       => DocumentListeners' = {}]_vars

(***************************************************************************)
(* C29.  Each click on an in-page hash link whose target section exists    *)
(* prevents the default navigation and issues exactly one scroll request,  *)
(* with smooth behaviour and top equal to the offsetTop of the target      *)
(* section minus 80.                                                       *)
(***************************************************************************)
C29_OneSmoothScrollRequest ==
  [][\A t \in OffsetTops, h \in NavbarHeights :
       LinkClick(TRUE, t, h)
         => /\ prevented'
            /\ scrollCalls' = <<[top |-> t - 80, behavior |-> "smooth"]>>]_vars

(***************************************************************************)
(* C30.  An observed element gets its animation class the first time the   *)
(* observer reports it intersecting and is unobserved in the same step; a  *)
(* batch that does not report it intersecting adds no class to it; and no  *)
(* step removes a class once added, so repeated reports leave the element  *)
(* animated.                                                               *)
(***************************************************************************)
C30_AnimatedOnceAndForAll ==
  [][\A e \in Elements :
       /\ classList[e] \subseteq classList'[e]
       /\ IF e \in reported'
          THEN /\ classList'[e] = {AnimationClass(e)}
               /\ e \notin observed'
          ELSE classList'[e] = classList[e]]_vars

\* a section animated at its first report and reported again, next to an
\* element that has not intersected yet
C30_Witness ==
  /\ "section" \in repeated
  /\ "section" \in reported
  /\ classList["section"] = {"animate-fade-in"}
  /\ "section" \notin observed
  /\ classList["tool-card"] = {}
  /\ "tool-card" \in observed

(***************************************************************************)
(* C31.  Once a touchend, mouseup or mouseleave has ended a drag, the      *)
(* track is at -currentSlide * 100 %: no resolution of a gesture leaves    *)
(* the track at the offset of the drag, also when the release commits      *)
(* while the lock is set or with zero slides.                              *)
(***************************************************************************)
C31_TrackAtSlideAfterRelease ==
  [][(isDragging /\ ~isDragging' /\ (TouchEnd \/ MouseUp \/ MouseLeave))
       => trackTransform' = Pct((0 - currentSlide') * 100)]_vars

(***************************************************************************)
(* C32.  After every release, a touchend or a mouseup that follows a       *)
(* mousedown (a drag is active and no touch session is open, so a          *)
(* mousedown began it), under any interleaving of touch, mouse and resize  *)
(* events: isDragging is false and the transition of the track is enabled. *)
(***************************************************************************)
C32_ReleaseEndsSession ==
  [][(TouchEnd \/ (isDragging /\ axis = "NoSession" /\ MouseUp))
       => (~isDragging' /\ transitionEnabled')]_vars

(***************************************************************************)
(* C33.  While a horizontal drag is active, the offset each move writes is *)
(* the resisted value of -currentSlide * 100 plus the drag percent, for    *)
(* the currentSlide at the time of the move, also when a key, a button or  *)
(* an indicator has changed currentSlide since the press.                  *)
(***************************************************************************)
C33_LiveOffsetFollowsSlide ==
  [][\A w \in ContainerWidths :
       /\ (touches = 1 /\ isDragging' /\ isHorizontalSwipe'
             /\ \E x \in TouchXs, y \in TouchYs : TouchMove(x, y, w))
            => trackTransform' = (ClaimedOffset(RawOffset(w), <<3, 10>>))'
       /\ (isDragging /\ ~isMobile /\ Abs(currentX' - startX) > 5
             /\ \E x \in MouseXs : MouseMove(x, w))
            => trackTransform' = (ClaimedOffset(RawOffset(w), <<2, 10>>))']_vars

(***************************************************************************)
(* C34.  With at least one slide and a valid index, nextSlide followed by  *)
(* previousSlide, and previousSlide followed by nextSlide, each call made  *)
(* while the lock is clear, restore the index the first call started       *)
(* from; previousSlide at index 0 yields totalSlides - 1.                  *)
(***************************************************************************)
C34_NextPreviousInverse ==
  [][/\ (~isAnimating /\ lastCall.clear /\ lastCall.name = "next"
          /\ CallPreviousSlide)
         => currentSlide' = lastCall.from
     /\ (~isAnimating /\ lastCall.clear /\ lastCall.name = "previous"
          /\ CallNextSlide)
         => currentSlide' = lastCall.from
     /\ (~isAnimating /\ currentSlide = 0 /\ CallPreviousSlide)
         => currentSlide' = totalSlides - 1]_vars

\* nextSlide has been called once, and then previousSlide, made at the first
\* slide with the lock clear, has wrapped to the last slide
C34_Witness ==
  /\ totalSlides = WrapMaxSlides
  /\ calls = 1
  /\ lastCall = [name |-> "previous", from |-> 0, clear |-> TRUE]
  /\ currentSlide = totalSlides - 1
  /\ isAnimating

(***************************************************************************)
(* C35.  One tap on the menu toggle, a pointerdown followed by a click on  *)
(* the same element, changes the menu's open/closed state exactly once,    *)
(* whichever initialization paths have bound handlers.                     *)
(***************************************************************************)
C35_OneChangePerTap ==
  [][(menuHandlers # {} /\ MenuClick) => tapChanges' = 1]_vars

====
